---------------------------- MODULE Spec2Model ----------------------------
(***************************************************************************)
(* A model of httpproblem/problem.py: RFC 7807 problem details.            *)
(*                                                                         *)
(* Python values are records [t |-> type, v |-> payload].  A dict is an    *)
(* insertion-ordered sequence of <<key, value>> pairs with distinct keys.  *)
(* Texts are TLA+ strings, handled character by character.  A call that    *)
(* may raise returns [raised |-> exception name or "", val |-> value].     *)
(***************************************************************************)
EXTENDS Integers, Sequences, FiniteSets, TLC

VARIABLES SERIALIZE_METHOD, WITH_TRACEBACK, lastPolicyCall, handling, self, call, ret

vars == <<SERIALIZE_METHOD, WITH_TRACEBACK, lastPolicyCall, handling, self, call, ret>>

(***************************************************************************)
(* Bounds of the model.                                                    *)
(***************************************************************************)
\* the largest number of extension keywords of one direct call
MaxExtensions == 1
\* the largest number of entries of a caller's headers mapping
MaxHeaders == 2

(***************************************************************************)
(* Python values.                                                          *)
(***************************************************************************)
None == [t |-> "None", v |-> 0]
PyBool(b) == [t |-> "bool", v |-> b]
PyInt(n) == [t |-> "int", v |-> n]
PyStr(s) == [t |-> "str", v |-> s]
PyDict(pairs) == [t |-> "dict", v |-> pairs]

Returns(x) == [raised |-> "", val |-> x]
Raises(e) == [raised |-> e, val |-> None]

\* the truth value Python's `if x:` / `not x` takes
Truthy(x) ==
    CASE x.t = "None" -> FALSE
      [] x.t = "bool" -> x.v
      [] x.t = "int" -> x.v # 0
      [] x.t = "str" -> x.v # ""
      [] x.t = "dict" -> x.v # <<>>

(***************************************************************************)
(* Ordered dicts.                                                          *)
(***************************************************************************)
Keys(d) == {d[i][1] : i \in 1..Len(d)}
Has(d, k) == \E i \in 1..Len(d) : d[i][1] = k
Get(d, k) == d[CHOOSE i \in 1..Len(d) : d[i][1] = k][2]
\* d[k] = x: an existing key keeps its place, a new key is appended
SetItem(d, k, x) ==
    IF Has(d, k)
    THEN [i \in 1..Len(d) |-> IF d[i][1] = k THEN <<k, x>> ELSE d[i]]
    ELSE Append(d, <<k, x>>)
RECURSIVE Update(_, _)
\* d.update(e)
Update(d, e) ==
    IF e = <<>> THEN d
    ELSE Update(SetItem(d, e[1][1], e[1][2]), Tail(e))
DistinctKeys(d) == \A i, j \in 1..Len(d) : d[i][1] = d[j][1] => i = j

(***************************************************************************)
(* Texts.                                                                  *)
(***************************************************************************)
Upper == "ABCDEFGHIJKLMNOPQRSTUVWXYZ"
LowerLetters == "abcdefghijklmnopqrstuvwxyz"
Digits == "0123456789"
CharAt(s, i) == SubSeq(s, i, i)
IndexIn(alphabet, c) ==
    IF \E i \in 1..Len(alphabet) : CharAt(alphabet, i) = c
    THEN CHOOSE i \in 1..Len(alphabet) : CharAt(alphabet, i) = c
    ELSE 0
LowerChar(c) ==
    IF IndexIn(Upper, c) # 0 THEN CharAt(LowerLetters, IndexIn(Upper, c)) ELSE c
RECURSIVE lower(_)
\* str.lower()
lower(s) == IF s = "" THEN "" ELSE LowerChar(Head(s)) \o lower(Tail(s))

IsDigits(s) == s # "" /\ \A i \in 1..Len(s) : IndexIn(Digits, CharAt(s, i)) # 0
RECURSIVE DigitsValue(_, _)
DigitsValue(s, acc) ==
    IF s = "" THEN acc
    ELSE DigitsValue(Tail(s), 10 * acc + (IndexIn(Digits, Head(s)) - 1))

\* int(x): a text must be an optionally signed run of decimal digits
int(x) ==
    CASE x.t = "int" -> Returns(PyInt(x.v))
      [] x.t = "bool" -> Returns(PyInt(IF x.v THEN 1 ELSE 0))
      [] x.t = "str" ->
            IF IsDigits(x.v) THEN Returns(PyInt(DigitsValue(x.v, 0)))
            ELSE IF Len(x.v) > 1 /\ Head(x.v) = "-" /\ IsDigits(Tail(x.v))
            THEN Returns(PyInt(0 - DigitsValue(Tail(x.v), 0)))
            ELSE IF Len(x.v) > 1 /\ Head(x.v) = "+" /\ IsDigits(Tail(x.v))
            THEN Returns(PyInt(DigitsValue(Tail(x.v), 0)))
            ELSE Raises("ValueError")
      [] OTHER -> Raises("TypeError")

\* the escapes repr() and json.dumps share for the characters modelled
EscapeChar(c, quote) ==
    CASE c = "\n" -> "\\n"
      [] c = "\\" -> "\\\\"
      [] c = quote -> "\\" \o quote
      [] OTHER -> c
RECURSIVE Escape(_, _)
Escape(s, quote) ==
    IF s = "" THEN "" ELSE EscapeChar(Head(s), quote) \o Escape(Tail(s), quote)

RECURSIVE repr(_)
RECURSIVE ReprItems(_)
ReprItems(d) ==
    IF d = <<>> THEN ""
    ELSE "'" \o Escape(d[1][1], "'") \o "': " \o repr(d[1][2])
         \o (IF Len(d) > 1 THEN ", " ELSE "") \o ReprItems(Tail(d))
\* repr(x), which is what str() of a dict shows of its values
repr(x) ==
    CASE x.t = "None" -> "None"
      [] x.t = "bool" -> (IF x.v THEN "True" ELSE "False")
      [] x.t = "int" -> ToString(x.v)
      [] x.t = "str" -> "'" \o Escape(x.v, "'") \o "'"
      [] x.t = "dict" -> "{" \o ReprItems(x.v) \o "}"

\* str(x)
str(x) == IF x.t = "str" THEN x.v ELSE repr(x)

RECURSIVE json_dumps(_)
RECURSIVE JsonItems(_)
JsonItems(d) ==
    IF d = <<>> THEN ""
    ELSE "\"" \o Escape(d[1][1], "\"") \o "\": " \o json_dumps(d[1][2])
         \o (IF Len(d) > 1 THEN ", " ELSE "") \o JsonItems(Tail(d))
\* json.dumps(x) with its default separators
json_dumps(x) ==
    CASE x.t = "None" -> "null"
      [] x.t = "bool" -> (IF x.v THEN "true" ELSE "false")
      [] x.t = "int" -> ToString(x.v)
      [] x.t = "str" -> "\"" \o Escape(x.v, "\"") \o "\""
      [] x.t = "dict" -> "{" \o JsonItems(x.v) \o "}"

(***************************************************************************)
(* The collaborators of the module: the reason phrases, the serializers,   *)
(* the trace formatter and Python's binding of keyword arguments.          *)
(***************************************************************************)
\* httplib.responses
responses ==
    << <<100, "Continue">>, <<101, "Switching Protocols">>, <<102, "Processing">>,
       <<103, "Early Hints">>, <<200, "OK">>, <<201, "Created">>,
       <<202, "Accepted">>, <<203, "Non-Authoritative Information">>, <<204, "No Content">>,
       <<205, "Reset Content">>, <<206, "Partial Content">>, <<207, "Multi-Status">>,
       <<208, "Already Reported">>, <<226, "IM Used">>, <<300, "Multiple Choices">>,
       <<301, "Moved Permanently">>, <<302, "Found">>, <<303, "See Other">>,
       <<304, "Not Modified">>, <<305, "Use Proxy">>, <<307, "Temporary Redirect">>,
       <<308, "Permanent Redirect">>, <<400, "Bad Request">>, <<401, "Unauthorized">>,
       <<402, "Payment Required">>, <<403, "Forbidden">>, <<404, "Not Found">>,
       <<405, "Method Not Allowed">>, <<406, "Not Acceptable">>, <<407, "Proxy Authentication Required">>,
       <<408, "Request Timeout">>, <<409, "Conflict">>, <<410, "Gone">>,
       <<411, "Length Required">>, <<412, "Precondition Failed">>, <<413, "Request Entity Too Large">>,
       <<414, "Request-URI Too Long">>, <<415, "Unsupported Media Type">>, <<416, "Requested Range Not Satisfiable">>,
       <<417, "Expectation Failed">>, <<418, "I'm a Teapot">>, <<421, "Misdirected Request">>,
       <<422, "Unprocessable Entity">>, <<423, "Locked">>, <<424, "Failed Dependency">>,
       <<425, "Too Early">>, <<426, "Upgrade Required">>, <<428, "Precondition Required">>,
       <<429, "Too Many Requests">>, <<431, "Request Header Fields Too Large">>, <<451, "Unavailable For Legal Reasons">>,
       <<500, "Internal Server Error">>, <<501, "Not Implemented">>, <<502, "Bad Gateway">>,
       <<503, "Service Unavailable">>, <<504, "Gateway Timeout">>, <<505, "HTTP Version Not Supported">>,
       <<506, "Variant Also Negotiates">>, <<507, "Insufficient Storage">>, <<508, "Loop Detected">>,
       <<510, "Not Extended">>, <<511, "Network Authentication Required">> >>

\* the key `x in httplib.responses` looks up: by hash and equality, so True
\* is 1, and a text is never a key
ResponsesKey(x) ==
    CASE x.t = "int" -> x.v
      [] x.t = "bool" -> (IF x.v THEN 1 ELSE 0)
      [] OTHER -> 0 - 1
InResponses(x) == Has(responses, ResponsesKey(x))

\* the functions set_serialize_function is given: json.dumps, the default,
\* and the builtin str
SerializeFunctions == {"json.dumps", "str"}
Serialize(method, x) == IF method = "json.dumps" THEN json_dumps(x) ELSE str(x)

\* traceback.format_exc(): the trace of the exception being handled
format_exc ==
    IF handling THEN "Traceback (most recent call last):\nhttpproblem.problem.Problem\n"
    ELSE "NoneType: None\n"

\* f(..., k=v, ..., **star): a keyword given twice is a TypeError
Keywords(explicit, star) ==
    IF DistinctKeys(explicit \o star) THEN Returns(explicit \o star)
    ELSE Raises("TypeError")
\* the argument bound to parameter `name`, whose default is None
Arg(kw, name) == IF Has(kw, name) THEN Get(kw, name) ELSE None
\* **kwargs: the keywords that name no parameter, in the order given
Rest(kw, params) == SelectSeq(kw, LAMBDA p : p[1] \notin params)
\* positional arguments, as the keywords they are bound to
Positional(names, values) == [i \in 1..Len(names) |-> <<names[i], values[i]>>]

ProblemParams == <<"status", "title", "detail", "type", "instance">>
Range(s) == {s[i] : i \in 1..Len(s)}

(***************************************************************************)
(* problem(status, title, detail, type, instance, **kwargs)                *)
(***************************************************************************)
\* a mutant of SetIfTruthy: `if x is not None:` in place of `if x:`
SetIfNotNone(d, key, x) ==
    IF x # None THEN SetItem(d, key, PyStr(str(x))) ELSE d

\* lines 130-137: `if x: problem_dict[key] = str(x)`
SetIfTruthy(d, key, x) ==
    IF Truthy(x) THEN SetItem(d, key, PyStr(str(x))) ELSE d

\* lines 126-129; int(status) has not raised
StatusAndTitle(d, status, title) ==
    IF Truthy(status)
    THEN LET d1 == SetItem(d, "status", int(status).val)
         IN  IF (~Truthy(title) \/ title = PyStr("about:blank")) /\ InResponses(status)
             THEN SetItem(d1, "title", PyStr(Get(responses, ResponsesKey(status))))
             ELSE d1
    ELSE d

\* lines 125-137: the standard fields, in the order they are set
StandardFields(status, title, detail, type, instance) ==
    LET d1 == StatusAndTitle(<<>>, status, title)
        d2 == SetIfTruthy(d1, "title", title)
        d3 == SetIfTruthy(d2, "detail", detail)
        d4 == SetIfTruthy(d3, "type", type)
    IN  SetIfTruthy(d4, "instance", instance)

\* a mutant of problem: the extensions are filtered like the standard fields
problem_FilteringExtensions(kw) ==
    LET status == Arg(kw, "status")
        kwargs == SelectSeq(Rest(kw, Range(ProblemParams)), LAMBDA p : Truthy(p[2]))
    IN  IF Truthy(status) /\ int(status).raised # ""
        THEN Raises(int(status).raised)
        ELSE Returns(PyDict(Update(
                 StandardFields(status, Arg(kw, "title"), Arg(kw, "detail"),
                                Arg(kw, "type"), Arg(kw, "instance")), kwargs)))

problem(kw) ==
    LET status == Arg(kw, "status")
        kwargs == Rest(kw, Range(ProblemParams))
    IN  IF Truthy(status) /\ int(status).raised # ""
        THEN Raises(int(status).raised)
        ELSE Returns(PyDict(Update(
                 StandardFields(status, Arg(kw, "title"), Arg(kw, "detail"),
                                Arg(kw, "type"), Arg(kw, "instance")), kwargs)))

(***************************************************************************)
(* problem_http_response(status, ..., instance, headers, **kwargs)         *)
(***************************************************************************)
\* a mutant of ResponseHeaders: the header name is compared as written
ResponseHeaders_CaseSensitive(given) ==
    LET headers == IF ~Truthy(given) THEN <<>> ELSE given.v
        has_content_type == \E i \in 1..Len(headers) : headers[i][1] = "content-type"
    IN  IF ~has_content_type
        THEN SetItem(headers, "Content-Type", PyStr("application/problem+json"))
        ELSE headers

\* lines 168-175: the headers mapping the response carries
ResponseHeaders(given) ==
    LET headers == IF ~Truthy(given) THEN <<>> ELSE given.v
        has_content_type == \E i \in 1..Len(headers) : lower(headers[i][1]) = "content-type"
    IN  IF ~has_content_type
        THEN SetItem(headers, "Content-Type", PyStr("application/problem+json"))
        ELSE headers

\* a mutant of StatusCode: the coerced status of the body
StatusCode_FromBody(status, body) ==
    IF Has(body.v, "status") THEN Get(body.v, "status") ELSE None

\* line 178: 'statusCode': status
StatusCode(status, body) == status

problem_http_response(kw) ==
    LET status == Arg(kw, "status")
        body == problem(Rest(kw, {"headers"}))
        headers == ResponseHeaders(Arg(kw, "headers"))
    IN  IF body.raised # ""
        THEN body
        ELSE Returns(PyDict(<< <<"statusCode", StatusCode(status, body.val)>>,
                               <<"body", PyStr(Serialize(SERIALIZE_METHOD, body.val))>>,
                               <<"headers", PyDict(headers)>> >>))

(***************************************************************************)
(* class Problem(Exception)                                                *)
(***************************************************************************)
NoProblem ==
    [made |-> FALSE, status |-> None, title |-> None, detail |-> None,
     type |-> None, instance |-> None, kwargs |-> <<>>]

Problem__init__(kw) ==
    [made |-> TRUE, status |-> Arg(kw, "status"), title |-> Arg(kw, "title"),
     detail |-> Arg(kw, "detail"), type |-> Arg(kw, "type"),
     instance |-> Arg(kw, "instance"), kwargs |-> Rest(kw, Range(ProblemParams))]

\* a mutant of Resolved: `with_traceback = with_traceback or WITH_TRACEBACK`
Resolved_Or(with_traceback) ==
    IF Truthy(with_traceback) THEN with_traceback ELSE PyBool(WITH_TRACEBACK)

\* `if with_traceback is None: with_traceback = WITH_TRACEBACK`
Resolved(with_traceback) ==
    IF with_traceback = None THEN PyBool(WITH_TRACEBACK) ELSE with_traceback

\* the arguments both conversions pass on: the five stored fields by
\* position, traceback=traceback.format_exc() when asked for, **self.kwargs
ConversionKeywords(with_traceback) ==
    LET stored == Positional(ProblemParams,
                     <<self.status, self.title, self.detail, self.type, self.instance>>)
    IN  IF Truthy(Resolved(with_traceback))
        THEN Keywords(stored \o << <<"traceback", PyStr(format_exc)>> >>, self.kwargs)
        ELSE Keywords(stored, self.kwargs)

to_dict(with_traceback) ==
    LET kw == ConversionKeywords(with_traceback)
    IN  IF kw.raised # "" THEN kw ELSE problem(kw.val)

to_http_response(with_traceback) ==
    LET kw == ConversionKeywords(with_traceback)
    IN  IF kw.raised # "" THEN kw ELSE problem_http_response(kw.val)

\* the local `body` of problem_http_response in that call
HttpBodyMapping(with_traceback) ==
    LET kw == ConversionKeywords(with_traceback)
    IN  IF kw.raised # "" THEN kw ELSE problem(Rest(kw.val, {"headers"}))

\* **self.kwargs hands the stored headers dict itself to problem_http_response,
\* which adds Content-Type to it in place unless it is empty (then a new dict
\* is made) or the call raised before line 168
SelfAfterHttpResponse(result) ==
    IF result.raised = "" /\ Has(self.kwargs, "headers")
       /\ Truthy(Get(self.kwargs, "headers"))
    THEN [self EXCEPT !.kwargs = SetItem(@, "headers", Get(result.val.v, "headers"))]
    ELSE self

\* a mutant of Problem__str__: str(self.to_dict())
Problem__str__WithPolicy ==
    LET d == to_dict(None)
    IN  IF d.raised # "" THEN d ELSE Returns(PyStr(str(d.val)))

Problem__str__ ==
    LET d == to_dict(PyBool(FALSE))
    IN  IF d.raised # "" THEN d ELSE Returns(PyStr(str(d.val)))

Problem__repr__ == Problem__str__

(***************************************************************************)
(* The inputs.                                                             *)
(***************************************************************************)
RECURSIVE Pick(_, _, _)
\* the entries of pool whose index is in I, in pool's order
Pick(pool, I, i) ==
    IF i > Len(pool) THEN <<>>
    ELSE (IF i \in I THEN <<pool[i]>> ELSE <<>>) \o Pick(pool, I, i + 1)
Choices(pool, max) ==
    {Pick(pool, I, 1) : I \in {J \in SUBSET (1..Len(pool)) : Cardinality(J) <= max}}
\* a keyword given as None is the parameter's default: it is left out
Passed(kw) == SelectSeq(kw, LAMBDA p : p[2] # None)

StatusValues ==
    {None, PyInt(0), PyInt(404), PyInt(599), PyStr("404"), PyStr("0"), PyStr("abc"),
     PyBool(TRUE)}
TitleValues == {None, PyStr(""), PyStr("about:blank"), PyStr("Custom")}
DetailValues == {PyInt(0), PyInt(7)}
TypeValues == {PyStr(""), PyStr("about:blank")}
InstanceValues == {None, PyStr("/i/1")}
HeaderPool ==
    << <<"X-Trace", PyStr("1")>>, <<"content-type", PyStr("text/plain")>>,
       <<"CONTENT-TYPE", PyStr("text/html")>> >>
HeaderValues == {None} \cup {PyDict(h) : h \in Choices(HeaderPool, MaxHeaders)}
ExtensionPool ==
    << <<"custom", None>>, <<"custom", PyStr("x")>>,
       <<"title", None>>, <<"title", PyStr("X")>> >>
ExtensionValues == {e \in Choices(ExtensionPool, MaxExtensions) : DistinctKeys(e)}

NoCall ==
    [status |-> None, title |-> None, detail |-> None, type |-> None,
     instance |-> None, headers |-> None, ext |-> <<>>]
CallInputs ==
    [status : StatusValues, title : TitleValues, detail : DetailValues,
     type : TypeValues, instance : InstanceValues, headers : HeaderValues,
     ext : ExtensionValues]
\* f(status=.., title=.., detail=.., type=.., instance=.., headers=.., **ext)
CallKeywords(c) ==
    Keywords(Passed(<< <<"status", c.status>>, <<"title", c.title>>,
                       <<"detail", c.detail>>, <<"type", c.type>>,
                       <<"instance", c.instance>>, <<"headers", c.headers>> >>),
             c.ext)

StoredPool ==
    << <<"traceback", PyStr("mine")>>, <<"headers", PyDict(<<>>)>>,
       <<"headers", PyDict(<< <<"X-Trace", PyStr("1")>> >>)>>,
       <<"headers", PyDict(<< <<"content-type", PyStr("text/plain")>> >>)>>,
       <<"custom", PyStr("x")>> >>
ProblemInputs ==
    {Passed(<< <<"status", s>>, <<"title", t>>, <<"detail", d>> >>) \o e :
        s \in {None, PyInt(404), PyStr("abc")}, t \in {None, PyStr("about:blank")},
        d \in {None, PyStr("d")},
        e \in {x \in Choices(StoredPool, Len(StoredPool)) : DistinctKeys(x)}}

(***************************************************************************)
(* The operations.  ret is what the most recent operation returned or      *)
(* raised; mapping is the dict it normalised, where it did.                *)
(***************************************************************************)
Ret(op, arg, result, mapping) ==
    [op |-> op, arg |-> arg, raised |-> result.raised, val |-> result.val,
     mapping |-> mapping]

set_serialize_function(method) ==
    /\ SERIALIZE_METHOD' = method
    /\ ret' = Ret("set_serialize_function", None, Returns(None), None)
    /\ UNCHANGED <<WITH_TRACEBACK, lastPolicyCall, handling, self, call>>

activate_traceback ==
    /\ WITH_TRACEBACK' = TRUE
    /\ lastPolicyCall' = "activate_traceback"
    /\ ret' = Ret("activate_traceback", None, Returns(None), None)
    /\ UNCHANGED <<SERIALIZE_METHOD, handling, self, call>>

deactivate_traceback ==
    /\ WITH_TRACEBACK' = FALSE
    /\ lastPolicyCall' = "deactivate_traceback"
    /\ ret' = Ret("deactivate_traceback", None, Returns(None), None)
    /\ UNCHANGED <<SERIALIZE_METHOD, handling, self, call>>

Construct(kw) ==
    /\ ~self.made
    /\ self' = Problem__init__(kw)
    /\ ret' = Ret("Problem", None, Returns(None), None)
    /\ UNCHANGED <<SERIALIZE_METHOD, WITH_TRACEBACK, lastPolicyCall, handling, call>>

\* the Problem goes out of scope; the next one can be constructed
Discard ==
    /\ self.made /\ ~handling
    /\ self' = NoProblem
    /\ ret' = Ret("del", None, Returns(None), None)
    /\ UNCHANGED <<SERIALIZE_METHOD, WITH_TRACEBACK, lastPolicyCall, handling, call>>

\* `raise p` caught by an `except` clause: an exception is being handled
Raise ==
    /\ self.made /\ ~handling
    /\ handling' = TRUE
    /\ ret' = Ret("raise", None, Returns(None), None)
    /\ UNCHANGED <<SERIALIZE_METHOD, WITH_TRACEBACK, lastPolicyCall, self, call>>

\* the `except` clause is left
Handled ==
    /\ handling
    /\ handling' = FALSE
    /\ ret' = Ret("handled", None, Returns(None), None)
    /\ UNCHANGED <<SERIALIZE_METHOD, WITH_TRACEBACK, lastPolicyCall, self, call>>

ToDict(with_traceback) ==
    /\ self.made
    /\ LET r == to_dict(with_traceback)
       IN  ret' = Ret("to_dict", with_traceback, r, r.val)
    /\ UNCHANGED <<SERIALIZE_METHOD, WITH_TRACEBACK, lastPolicyCall, handling, self, call>>

ToHttpResponse(with_traceback) ==
    /\ self.made
    /\ LET r == to_http_response(with_traceback)
       IN  /\ ret' = Ret("to_http_response", with_traceback, r,
                         HttpBodyMapping(with_traceback).val)
           /\ self' = SelfAfterHttpResponse(r)
    /\ UNCHANGED <<SERIALIZE_METHOD, WITH_TRACEBACK, lastPolicyCall, handling, call>>

StrOfProblem ==
    /\ self.made
    /\ ret' = Ret("__str__", None, Problem__str__, to_dict(PyBool(FALSE)).val)
    /\ UNCHANGED <<SERIALIZE_METHOD, WITH_TRACEBACK, lastPolicyCall, handling, self, call>>

ReprOfProblem ==
    /\ self.made
    /\ ret' = Ret("__repr__", None, Problem__repr__, to_dict(PyBool(FALSE)).val)
    /\ UNCHANGED <<SERIALIZE_METHOD, WITH_TRACEBACK, lastPolicyCall, handling, self, call>>

CallProblem ==
    /\ LET kw == CallKeywords(call)
           r == IF kw.raised # "" THEN kw ELSE problem(kw.val)
       IN  ret' = Ret("problem", None, r, r.val)
    /\ UNCHANGED <<SERIALIZE_METHOD, WITH_TRACEBACK, lastPolicyCall, handling, self, call>>

CallProblemHttpResponse ==
    /\ LET kw == CallKeywords(call)
           r == IF kw.raised # "" THEN kw ELSE problem_http_response(kw.val)
           body == IF kw.raised # "" THEN kw ELSE problem(Rest(kw.val, {"headers"}))
       IN  ret' = Ret("problem_http_response", None, r, body.val)
    /\ UNCHANGED <<SERIALIZE_METHOD, WITH_TRACEBACK, lastPolicyCall, handling, self, call>>

WithTracebackValues == {None, PyBool(TRUE), PyBool(FALSE)}
NoRet == Ret("", None, Returns(None), None)

\* the module as imported: json.dumps, tracebacks off, no Problem yet
Init ==
    /\ SERIALIZE_METHOD = "json.dumps"
    /\ WITH_TRACEBACK = FALSE
    /\ lastPolicyCall = ""
    /\ handling = FALSE
    /\ self = NoProblem
    /\ call = NoCall
    /\ ret = NoRet

Next ==
    \/ \E method \in SerializeFunctions : set_serialize_function(method)
    \/ activate_traceback
    \/ deactivate_traceback
    \/ \E kw \in ProblemInputs : Construct(kw)
    \/ Discard
    \/ Raise
    \/ Handled
    \/ \E with_traceback \in WithTracebackValues : ToDict(with_traceback)
    \/ \E with_traceback \in WithTracebackValues : ToHttpResponse(with_traceback)
    \/ StrOfProblem
    \/ ReprOfProblem

Spec == Init /\ [][Next]_vars

\* direct calls of the two functions: the arguments and the configured
\* serializer are drawn at the start
InitCalls ==
    /\ SERIALIZE_METHOD \in SerializeFunctions
    /\ WITH_TRACEBACK = FALSE
    /\ lastPolicyCall = ""
    /\ handling = FALSE
    /\ self = NoProblem
    /\ call \in CallInputs
    /\ ret = NoRet

NextCalls ==
    \/ CallProblem
    \/ CallProblemHttpResponse

SpecCalls == InitCalls /\ [][NextCalls]_vars

(***************************************************************************)
(* The properties.                                                         *)
(***************************************************************************)
Returned(op) == ret.op = op /\ ret.raised = ""
\* the keywords of the direct call, when it binds
CallKw == CallKeywords(call).val
IsContentType(name) == lower(name) = "content-type"
ContentTypeNames(d) == {k \in Keys(d) : IsContentType(k)}
Conversions == {"to_dict", "to_http_response"}
\* whether the conversion ret reports was to include the traceback, by the
\* argument given or else by the most recent policy call
Wanted ==
    IF ret.arg = None THEN lastPolicyCall = "activate_traceback" ELSE ret.arg.v

\* C1 as stated: no key of the mapping problem() returns has a None, empty
\* or otherwise falsy value.
C1_NoFalsyValue ==
    Returned("problem") =>
        \A i \in 1..Len(ret.val.v) : Truthy(ret.val.v[i][2])

\* C1 as amended: a standard field whose argument is falsy is absent as a key
\* (title: unless the status is truthy and a key of the reason phrases), a
\* standard key never holds None and a title, detail, type or instance key
\* holds a non-empty text; an extension keeps its value, falsy or not.
C1_FalsyStandardFieldsAbsent ==
    Returned("problem") =>
        LET d == ret.val.v
        IN  /\ \A n \in {"status", "detail", "type", "instance"} :
                  ~Truthy(Arg(CallKw, n)) => ~Has(d, n)
            /\ (~Truthy(Arg(CallKw, "title"))
                /\ ~(Truthy(call.status) /\ InResponses(call.status)))
               => ~Has(d, "title")
            /\ Has(d, "status") => Get(d, "status").t = "int"
            /\ \A n \in {"title", "detail", "type", "instance"} :
                  Has(d, n) => Get(d, n).t = "str" /\ Get(d, n).v # ""
            /\ \A i \in 1..Len(call.ext) :
                  call.ext[i][1] \notin Range(ProblemParams)
                  => Get(d, call.ext[i][1]) = call.ext[i][2]

C1_Witness ==
    /\ Returned("problem")
    /\ call.status = PyInt(0) /\ call.title = PyStr("") /\ call.detail = PyInt(0)
    /\ call.type = PyStr("") /\ call.instance = None
    /\ call.ext = << <<"custom", None>> >>
    /\ Keys(ret.val.v) \cap Range(ProblemParams) = {}
    /\ Get(ret.val.v, "custom") = None

\* C2: for a recognized status code s, problem(status=s, title="about:blank")
\* returns the reason phrase of s as the title, as problem(status=s) does.
C2_AboutBlankGivesReasonPhrase ==
    (/\ Returned("problem")
     /\ call.status.t = "int" /\ Has(responses, call.status.v)
     /\ call.title = PyStr("about:blank"))
    => /\ Has(ret.val.v, "title")
       /\ Get(ret.val.v, "title") = PyStr(Get(responses, call.status.v))

\* C3: for a truthy status that coerces to an integer, with no title and no
\* extensions, the status key is the coerced integer and there is a title key
\* exactly when that integer is a recognized code, holding its reason phrase.
C3_TitleIffCoercedStatusRecognized ==
    (/\ Returned("problem")
     /\ Truthy(call.status) /\ call.title = None /\ call.ext = <<>>)
    => LET d == ret.val.v
           n == int(call.status).val
       IN  /\ Has(d, "status") /\ Get(d, "status") = n
           /\ Has(d, "title") <=> Has(responses, n.v)
           /\ Has(d, "title") => Get(d, "title") = PyStr(Get(responses, n.v))

C5_HeadersKeptAndDefaulted ==
    Returned("problem_http_response") =>
        LET given == IF Truthy(call.headers) THEN call.headers.v ELSE <<>>
            headers == Get(ret.val.v, "headers").v
        IN  /\ \A i \in 1..Len(given) :
                  Has(headers, given[i][1]) /\ Get(headers, given[i][1]) = given[i][2]
            /\ IF ContentTypeNames(given) # {}
               THEN headers = given
               ELSE headers = Append(given, <<"Content-Type",
                                              PyStr("application/problem+json")>>)
            /\ Cardinality(ContentTypeNames(given)) <= 1
               => Cardinality(ContentTypeNames(headers)) = 1

C5_Witness ==
    /\ Returned("problem_http_response")
    /\ call.headers = PyDict(<< <<"X-Trace", PyStr("1")>>,
                                <<"CONTENT-TYPE", PyStr("text/html")>> >>)
    /\ Get(ret.val.v, "headers") = call.headers

\* C8: the response has exactly the keys statusCode, body and headers, and
\* statusCode is the status argument as passed, uncoerced; for a falsy status
\* the body mapping has no status key.
C8_ThreeKeysRawStatusCode ==
    Returned("problem_http_response") =>
        /\ [i \in 1..Len(ret.val.v) |-> ret.val.v[i][1]] = <<"statusCode", "body", "headers">>
        /\ Get(ret.val.v, "statusCode") = call.status
        /\ Get(ret.val.v, "body") = PyStr(Serialize(SERIALIZE_METHOD, ret.mapping))
        /\ ~Truthy(call.status) => ~Has(ret.mapping.v, "status")

C8_Witness ==
    /\ Returned("problem_http_response")
    /\ call.status = PyInt(0)
    /\ Get(ret.val.v, "statusCode") = PyInt(0)
    /\ ~Has(ret.mapping.v, "status")

\* C6 as stated: a conversion includes a traceback field exactly when its
\* with_traceback argument is true or, the argument unspecified, the most
\* recent policy call was activate_traceback.
C6_TracebackIffWanted ==
    (ret.op \in Conversions /\ ret.raised = "")
    => (Has(ret.mapping.v, "traceback") <=> Wanted)

\* C6 as amended: the flag is on exactly when the most recent policy call was
\* activate_traceback, the conversions leaving it alone; a conversion that
\* returns has a traceback field exactly when inclusion was wanted or the
\* Problem stores an extension named traceback, and when wanted the field is
\* the captured trace.
C6_TracebackIffWantedOrStored ==
    /\ WITH_TRACEBACK = (lastPolicyCall = "activate_traceback")
    /\ (ret.op \in Conversions /\ ret.raised = "")
       => /\ Has(ret.mapping.v, "traceback")
             <=> (Wanted \/ Has(self.kwargs, "traceback"))
          /\ Wanted => /\ ~Has(self.kwargs, "traceback")
                       /\ Get(ret.mapping.v, "traceback") = PyStr(format_exc)

C6_Witness ==
    /\ Returned("to_http_response")
    /\ ret.arg = PyBool(FALSE)
    /\ lastPolicyCall = "activate_traceback"
    /\ handling
    /\ ~Has(ret.mapping.v, "traceback")

\* the text of the stored fields alone: no policy, no trace
TextOfStored ==
    LET d == problem(Positional(ProblemParams,
                 <<self.status, self.title, self.detail, self.type, self.instance>>)
                 \o self.kwargs)
    IN  IF d.raised # "" THEN d ELSE Returns(PyStr(str(d.val)))

\* C7: str() and repr() of a Problem do not depend on the traceback policy:
\* the text is that of to_dict(with_traceback=False), a function of the stored
\* fields, and shows no captured trace.
C7_TextIgnoresPolicy ==
    ret.op \in {"__str__", "__repr__"} =>
        /\ ret.raised = TextOfStored.raised
        /\ ret.val = TextOfStored.val
        /\ ret.raised = ""
           => /\ ret.val = PyStr(str(to_dict(PyBool(FALSE)).val))
              /\ Has(ret.mapping.v, "traceback")
                 => /\ Has(self.kwargs, "traceback")
                    /\ Get(ret.mapping.v, "traceback") = Get(self.kwargs, "traceback")

C7_Witness ==
    /\ Returned("__str__")
    /\ WITH_TRACEBACK /\ handling
    /\ ~Has(ret.mapping.v, "traceback")

\* C9: the body of to_http_response(with_traceback) is the configured
\* serializer applied to what to_dict(with_traceback) returns.
C9_BodySerializesToDict ==
    (Returned("to_http_response") /\ to_dict(ret.arg).raised = "")
    => Get(ret.val.v, "body") = PyStr(Serialize(SERIALIZE_METHOD, to_dict(ret.arg).val))

\* C10: with traceback inclusion resolved to true, a conversion of any
\* Problem whose status coerces returns, and its mapping's traceback key
\* holds the trace captured at the call.
C10_TracebackNeverRaises ==
    (/\ ret.op \in Conversions
     /\ Wanted
     /\ ~Truthy(self.status) \/ int(self.status).raised = "")
    => /\ ret.raised = ""
       /\ Has(ret.mapping.v, "traceback")
       /\ Get(ret.mapping.v, "traceback") = PyStr(format_exc)

=============================================================================
